---- MODULE Spec2Model ----
(***************************************************************************)
(* Privacy utilities of the analytics platform (src/main.py):              *)
(*   mask_pii                    - PII masking of one record (a dict)      *)
(*   apply_differential_privacy  - additive noise on one aggregate         *)
(* and the service around them: login, the analytics endpoints, the audit *)
(* log and the status endpoints, one action per request.                   *)
(* Dicts live on a heap of objects so that copying and aliasing differ.    *)
(* Python values are tagged records; strings are sequences of characters.  *)
(***************************************************************************)
EXTENDS Integers, Sequences, FiniteSets, TLC

VARIABLES heap, data, before, ret, pc, callers,
          value, epsArg, epsilon, scale, draws, noise, result, dpc,
          users_db, audit_log, privacy_budget, tokens, now, db, customers, req, resp,
          store, procs, isLoading, loads

maskVars == <<heap, data, before, ret, pc, callers>>
noiseVars == <<value, epsArg, epsilon, scale, draws, noise, result, dpc>>
appVars == <<users_db, audit_log, privacy_budget, tokens, now, db, customers, req, resp>>
seedVars == <<store, procs>>
dashVars == <<isLoading, loads>>
vars == <<heap, data, before, ret, pc, callers,
          value, epsArg, epsilon, scale, draws, noise, result, dpc,
          users_db, audit_log, privacy_budget, tokens, now, db, customers, req, resp,
          store, procs, isLoading, loads>>

(***************************** bounds **************************************)
\* longest name / email / phone string of an input record
MaxNameLen == 3
MaxEmailLen == 4
MaxPhoneLen == 5
\* largest |value| and |noise sample| (fixed-point units), largest epsilon
MaxValue == 3
MaxNoise == 5
MaxEpsilon == 2
\* most audit entries of a run; latest clock value and clock step (minutes)
MaxLog == 2
MaxTime == 31
TickMinutes == 31
\* most rows of the customers table
MaxRows == 2
\* most analytics requests of the long run of spending
MaxSpend == 8
\* most /test-db requests one server process handles
MaxTestDb == 1
\* most clicks on the Refresh Data button
MaxClicks == 3

(***************************** Python values *******************************)
StrV(s) == [type |-> "str", str |-> s, num |-> 0]
IntV(n) == [type |-> "int", str |-> <<>>, num |-> n]
NoneV == [type |-> "none", str |-> <<>>, num |-> 0]

Strings(alphabet, n) == UNION {[1..k -> alphabet] : k \in 0..n}

NameChars == {"a", "b"}
EmailChars == {"a", "@"}
PhoneChars == {"1", "2"}

\* s[-n:]
SliceLast(s, n) == IF Len(s) > n THEN SubSeq(s, Len(s) - n + 1, Len(s)) ELSE s

\* s[:n]
SliceFirst(s, n) == SubSeq(s, 1, IF Len(s) < n THEN Len(s) ELSE n)

\* s.split(sep): the pieces between the occurrences of sep, in order
RECURSIVE Split(_, _)
Split(s, sep) ==
    IF \A i \in 1..Len(s) : s[i] # sep
    THEN <<s>>
    ELSE LET i == CHOOSE i \in 1..Len(s) :
                      s[i] = sep /\ \A j \in 1..(i - 1) : s[j] # sep
         IN <<SubSeq(s, 1, i - 1)>> \o Split(SubSeq(s, i + 1, Len(s)), sep)

Stars == <<"*", "*", "*">>
StarsAt == <<"*", "*", "*", "@">>
PhonePrefix == <<"*", "*", "*", "-", "*", "*", "*", "-">>

(***************************** dicts on the heap ***************************)
PII == {"name", "email", "phone"}

\* d[k] = v on the dict object at ref
SetItem(h, ref, k, v) ==
    [h EXCEPT ![ref] = [x \in (DOMAIN @) \cup {k} |-> IF x = k THEN v ELSE @[x]]]

\* data.copy(): a new dict object with the same items
DictAlias(h, ref) == [heap |-> h, ref |-> ref, raised |-> FALSE]
DictCopyPIIOnly(h, ref) ==
    [heap |-> Append(h, [x \in (DOMAIN h[ref]) \cap PII |-> h[ref][x]]),
     ref |-> Len(h) + 1, raised |-> FALSE]
DictCopy(h, ref) == [heap |-> Append(h, h[ref]), ref |-> Len(h) + 1, raised |-> FALSE]

(***************************** mask_pii ************************************)
\* "***" + name[-2:] if len(name) > 2 else "***"
MaskNameKeepAll(s) == Stars \o SliceLast(s, 2)
MaskName(s) == IF Len(s) > 2 THEN Stars \o SliceLast(s, 2) ELSE Stars

\* parts = email.split("@"); parts[0][:2] + "***@" + parts[1] when len(parts) == 2
MaskEmailAnyParts(s) ==
    LET parts == Split(s, "@")
    IN IF Len(parts) >= 2
       THEN SliceFirst(parts[1], 2) \o StarsAt \o parts[2]
       ELSE s
MaskEmail(s) ==
    LET parts == Split(s, "@")
    IN IF Len(parts) = 2
       THEN SliceFirst(parts[1], 2) \o StarsAt \o parts[2]
       ELSE s

\* "***-***-" + phone[-4:]
MaskPhoneFirst(s) == PhonePrefix \o SliceFirst(s, 4)
MaskPhone(s) == PhonePrefix \o SliceLast(s, 4)

\* one "if key in masked_data:" block; len(), .split() and [-4:] raise on a
\* value that is not a string (int, None)
MaskField(st, k, v) ==
    IF st.raised \/ k \notin DOMAIN st.heap[st.ref]
    THEN st
    ELSE IF st.heap[st.ref][k].type # "str"
         THEN [st EXCEPT !.raised = TRUE]
         ELSE [st EXCEPT !.heap = SetItem(st.heap, st.ref, k, v)]

NameStep(st) ==
    MaskField(st, "name", StrV(MaskName(st.heap[st.ref]["name"].str)))
EmailStep(st) ==
    MaskField(st, "email", StrV(MaskEmail(st.heap[st.ref]["email"].str)))
PhoneStep(st) ==
    MaskField(st, "phone", StrV(MaskPhone(st.heap[st.ref]["phone"].str)))

MaskPii(h, ref) == PhoneStep(EmailStep(NameStep(DictCopy(h, ref))))

(***************************** input records *******************************)
NameValues == {StrV(s) : s \in Strings(NameChars, MaxNameLen)} \cup {IntV(7), NoneV}
EmailValues == {StrV(s) : s \in Strings(EmailChars, MaxEmailLen)} \cup {IntV(7), NoneV}
PhoneValues == {StrV(s) : s \in Strings(PhoneChars, MaxPhoneLen)} \cup {IntV(7), NoneV}
AgeValues == {IntV(35)}
RegionValues == {StrV(<<"a", "@", "1">>)}

Absent == [type |-> "absent", str |-> <<>>, num |-> 0]

\* the dict with the given items; an Absent item is a missing key
MakeDict(items) == [k \in {x \in DOMAIN items : items[x] # Absent} |-> items[k]]

\* the input records: every combination of the values above
IsRecord(r) ==
    \E n \in NameValues \cup {Absent}, e \in EmailValues \cup {Absent},
       p \in PhoneValues \cup {Absent}, a \in AgeValues \cup {Absent},
       g \in RegionValues :
        r = MakeDict([name |-> n, email |-> e, phone |-> p, age |-> a, region |-> g])

(***************************** masking: state machine **********************)
\* the service handles no request
\* nothing seeds the database; no dashboard page is open
SeedIdle == store = <<>> /\ procs = <<>>
DashIdle == isLoading = FALSE /\ loads = <<>>

AppIdle ==
    /\ SeedIdle /\ DashIdle
    /\ users_db = <<>> /\ audit_log = <<>> /\ privacy_budget = 0 /\ tokens = {}
    /\ now = 0 /\ db = <<>> /\ customers = <<>> /\ req = <<>> /\ resp = <<>>

NoiseIdle ==
    /\ value = 0 /\ epsArg = [given |-> FALSE, v |-> 0] /\ epsilon = 0
    /\ scale = [num |-> 0, den |-> 1] /\ draws = 0
    /\ noise = 0 /\ result = 0 /\ dpc = "idle"

InitMask ==
    /\ IsRecord(before)
    /\ heap = <<before>>
    /\ data = 1
    /\ ret = 0
    /\ pc = "ready"
    /\ callers = <<>>
    /\ NoiseIdle
    /\ AppIdle

\* masked = mask_pii(data)
CallMaskPii ==
    /\ pc = "ready"
    /\ LET st == MaskPii(heap, data)
       IN /\ heap' = st.heap
          /\ ret' = IF st.raised THEN 0 ELSE st.ref
          /\ pc' = IF st.raised THEN "raised" ELSE "returned"
    /\ UNCHANGED <<data, before, callers>>
    /\ UNCHANGED noiseVars
    /\ UNCHANGED <<appVars, seedVars, dashVars>>

NextMask == CallMaskPii

SpecMask == InitMask /\ [][NextMask]_vars

\* again = mask_pii(masked): the returned dict is masked once more
CallMaskPiiAgain ==
    /\ pc = "returned"
    /\ LET st == MaskPii(heap, ret)
       IN /\ heap' = st.heap
          /\ data' = ret
          /\ ret' = IF st.raised THEN 0 ELSE st.ref
          /\ pc' = IF st.raised THEN "raised again" ELSE "returned again"
    /\ UNCHANGED <<before, callers>>
    /\ UNCHANGED noiseVars
    /\ UNCHANGED <<appVars, seedVars, dashVars>>

NextMaskTwice == CallMaskPii \/ CallMaskPiiAgain

SpecMaskTwice == InitMask /\ [][NextMaskTwice]_vars

(***************************** apply_differential_privacy ******************)
\* max(0, result)
Max0(r) == IF r > 0 THEN r ELSE 0

\* if value > 0: return max(0, result) else: return result
ClampNever(v, r) == r
ClampNonNegative(v, r) == IF v >= 0 THEN Max0(r) ELSE r
Clamp(v, r) == IF v > 0 THEN Max0(r) ELSE r

\* result = value + noise, then the bounds for display
ApplyDifferentialPrivacy(v, n) == Clamp(v, v + n)

\* epsilon is measured in tenths: DIFFERENTIAL_PRIVACY_EPSILON is "0.1"
DIFFERENTIAL_PRIVACY_EPSILON == 1

\* epsilon: float = DIFFERENTIAL_PRIVACY_EPSILON: the argument, else the default
BindEpsilon(arg) == IF arg.given THEN arg.v ELSE DIFFERENTIAL_PRIVACY_EPSILON

\* 0.1/epsilon as a fraction; with eps in tenths, 0.1/(eps/10) = 1/eps
NoiseScaleK1(eps) == [num |-> 10, den |-> eps]
NoiseScale(eps) == [num |-> 1, den |-> eps]

\* 0.1/epsilon raises ZeroDivisionError for epsilon = 0 and np.random.laplace
\* raises ValueError for a negative scale
ScaleRaises(eps) == eps <= 0
RaisedAs(eps) == IF eps = 0 THEN "ZeroDivisionError" ELSE "ValueError"

\* the samples np.random.laplace(0, scale) can return for a positive scale
NoiseSamples == (-MaxNoise)..MaxNoise

MaskIdle ==
    /\ heap = <<>> /\ data = 0 /\ before = <<>> /\ ret = 0 /\ pc = "idle"
    /\ callers = <<>>

InitNoise ==
    /\ value \in (-MaxValue)..MaxValue
    /\ epsArg \in {[given |-> TRUE, v |-> e] : e \in (-1)..MaxEpsilon}
                    \cup {[given |-> FALSE, v |-> 0]}
    /\ epsilon = 0
    /\ scale = [num |-> 0, den |-> 1]
    /\ draws = 0
    /\ noise = 0
    /\ result = 0
    /\ dpc = "ready"
    /\ MaskIdle
    /\ AppIdle

\* private = apply_differential_privacy(value, epsilon)
CallApplyDP ==
    /\ dpc = "ready"
    /\ ~ScaleRaises(BindEpsilon(epsArg))
    /\ epsilon' = BindEpsilon(epsArg)
    /\ scale' = NoiseScale(BindEpsilon(epsArg))
    /\ draws' = draws + 1
    /\ \E n \in NoiseSamples :
          /\ noise' = n
          /\ result' = ApplyDifferentialPrivacy(value, n)
    /\ dpc' = "returned"
    /\ UNCHANGED <<value, epsArg>>
    /\ UNCHANGED maskVars
    /\ UNCHANGED <<appVars, seedVars, dashVars>>

CallApplyDPRaises ==
    /\ dpc = "ready"
    /\ ScaleRaises(BindEpsilon(epsArg))
    /\ epsilon' = BindEpsilon(epsArg)
    /\ scale' = IF BindEpsilon(epsArg) = 0 THEN scale ELSE NoiseScale(BindEpsilon(epsArg))
    /\ dpc' = RaisedAs(BindEpsilon(epsArg))
    /\ UNCHANGED <<value, epsArg, draws, noise, result>>
    /\ UNCHANGED maskVars
    /\ UNCHANGED <<appVars, seedVars, dashVars>>

NextNoise == CallApplyDP \/ CallApplyDPRaises

SpecNoise == InitNoise /\ [][NextNoise]_vars

(***************************** the service: configuration ******************)
\* privacy budgets are measured in hundredths: PRIVACY_BUDGET is "1.0"
PRIVACY_BUDGET == 100
ACCESS_TOKEN_EXPIRE_MINUTES == 30

\* pwd_context.hash / pwd_context.verify
HashPassword(p) == [scheme |-> "bcrypt", of |-> p]
VerifyPassword(plain, hashed) == hashed = HashPassword(plain)

\* users_db as built at import time
InitialUsers ==
    [u \in {"admin", "analyst", "viewer"} |->
        [username |-> u,
         hashed_password |-> HashPassword(IF u = "admin" THEN "admin123"
                                          ELSE IF u = "analyst" THEN "analyst123"
                                          ELSE "viewer123"),
         role |-> u]]

NoUser == [username |-> "", role |-> "", found |-> FALSE]

\* get_user: the User of users_db[username], or None
GetUser(users, username) ==
    IF username \in DOMAIN users
    THEN [username |-> users[username].username, role |-> users[username].role,
          found |-> TRUE]
    ELSE NoUser

\* authenticate_user: the user, or False
AuthenticateUser(users, username, password) ==
    LET user == GetUser(users, username)
    IN IF ~user.found THEN NoUser
       ELSE IF ~VerifyPassword(password, users[username].hashed_password) THEN NoUser
       ELSE user

\* log_audit_entry: audit_log.append(entry)
LogReplaceLast(log, t, user, action, resource, used) ==
    (IF Len(log) = 0 THEN log ELSE SubSeq(log, 1, Len(log) - 1))
        \o <<[timestamp |-> t, user |-> user, action |-> action,
               resource |-> resource, privacy_budget_used |-> used]>>
LogAuditEntry(log, t, user, action, resource, used) ==
    Append(log, [timestamp |-> t, user |-> user, action |-> action,
                 resource |-> resource, privacy_budget_used |-> used])

\* create_access_token: the claims {"sub", "exp"} signed with SECRET_KEY
NoToken == [sub |-> "", hasSub |-> FALSE, exp |-> 0, key |-> "none"]
CreateAccessToken(sub, t, expires_delta) ==
    [sub |-> sub, hasSub |-> TRUE, exp |-> t + expires_delta, key |-> "SECRET_KEY"]

NoCred == [present |-> FALSE, token |-> NoToken]
Bearer(tok) == [present |-> TRUE, token |-> tok]

\* HTTPBearer refuses a request without an Authorization header; the status
\* is 403 or 401 depending on the FastAPI release
MissingBearerStatuses == {401, 403}

\* get_current_user after HTTPBearer: jwt.decode checks the signature and
\* the exp claim (expired once now > exp), then sub, then get_user
GetCurrentUserNoExpiry(users, tok, t) ==
    IF tok.key # "SECRET_KEY" THEN NoUser
    ELSE IF ~tok.hasSub THEN NoUser
    ELSE GetUser(users, tok.sub)
GetCurrentUser(users, tok, t) ==
    IF tok.key # "SECRET_KEY" THEN NoUser
    ELSE IF t > tok.exp THEN NoUser
    ELSE IF ~tok.hasSub THEN NoUser
    ELSE GetUser(users, tok.sub)

(***************************** the service: customer data ******************)
\* money is in dollars, avg_order_value in cents
Cust(id, age, income, freq, aov, day, region, category) ==
    [customer_id |-> id, age |-> age, income |-> income, purchase_frequency |-> freq,
     avg_order_value |-> aov, last_purchase |-> day, region |-> region,
     product_category |-> category]

\* a str holding a date, a datetime at midnight, and None
DateStr(d) == [kind |-> "str", date |-> d, time |-> ""]
DateTime(d) == [kind |-> "datetime", date |-> d, time |-> "00:00:00"]
NoDate == [kind |-> "none", date |-> "", time |-> ""]

\* the fallback records of get_customer_data; last_purchase is a plain date
SampleData ==
    <<Cust("CUST001", 35, 75000, 12, 15050, DateStr("2024-01-15"),
           "North", "Electronics"),
      Cust("CUST002", 28, 65000, 8, 8975, DateStr("2024-01-10"),
           "South", "Clothing"),
      Cust("CUST003", 42, 95000, 15, 22500, DateStr("2024-01-20"),
           "West", "Home & Garden"),
      Cust("CUST004", 31, 72000, 6, 7525, DateStr("2024-01-05"),
           "East", "Books"),
      Cust("CUST005", 38, 88000, 18, 18000, DateStr("2024-01-18"),
           "North", "Sports")>>

\* rows a customers table can hold: Customer columns, last_purchase a
\* datetime or NULL
TableRows ==
    <<Cust("DB001", 25, 2, 3, 20000, DateTime("2024-02-01"),
           "North", "Books"),
      Cust("DB002", 60, 3, 1, 50000, NoDate, "South", "Sports"),
      Cust("DB003", 40, 4, 2, 10000, NoDate, "North", "Books"),
      Cust("DB004", 50, 1, 1, 30000, NoDate, "East", "Clothing")>>

\* c.last_purchase.isoformat() if c.last_purchase else None
IsoFormat(d) ==
    IF d = NoDate THEN NoDate ELSE [kind |-> "str", date |-> d.date, time |-> "T" \o d.time]

\* one dict per Customer row
RowToDict(c) ==
    Cust(c.customer_id, c.age, c.income, c.purchase_frequency, c.avg_order_value,
         IsoFormat(c.last_purchase), c.region, c.product_category)

\* get_customer_data: the rows of the table, or the fallback records when
\* next(get_db()) or the query raises
GetCustomerDataQueryUncaught(d) ==
    IF ~d.session THEN [raised |-> FALSE, rows |-> SampleData]
    ELSE IF ~d.query THEN [raised |-> TRUE, rows |-> <<>>]
    ELSE [raised |-> FALSE, rows |-> [i \in 1..Len(d.rows) |-> RowToDict(d.rows[i])]]
GetCustomerData(d) ==
    IF ~d.session \/ ~d.query
    THEN [raised |-> FALSE, rows |-> SampleData]
    ELSE [raised |-> FALSE, rows |-> [i \in 1..Len(d.rows) |-> RowToDict(d.rows[i])]]

\* the states of the data store: unreachable, failing queries, or a table
DbStates ==
    {[session |-> FALSE, query |-> TRUE, rows |-> <<>>],
     [session |-> TRUE, query |-> FALSE, rows |-> <<>>]}
    \cup {[session |-> TRUE, query |-> TRUE, rows |-> SubSeq(TableRows, 1, k)] :
              k \in 0..MaxRows}

(***************************** the service: aggregates *********************)
\* aggregates are fixed-point numbers in thousandths (rounded down), or nan
Num(v) == [nan |-> FALSE, v |-> v]
NaN == [nan |-> TRUE, v |-> 0]

RECURSIVE SumSeq(_)
SumSeq(xs) == IF Len(xs) = 0 THEN 0 ELSE xs[1] + SumSeq(Tail(xs))

\* np.mean: nan (and a warning) for no values
Mean(xs) == IF Len(xs) = 0 THEN NaN ELSE Num((SumSeq(xs) * 1000) \div Len(xs))

\* round(x, 2)
Round2(x) == IF x.nan THEN NaN ELSE Num(((x.v + 5) \div 10) * 10)

\* apply_differential_privacy(x) with the default epsilon and noise sample n;
\* nan > 0 is False and nan + noise is nan
PrivateNum(x, n) == IF x.nan THEN NaN ELSE Num(ApplyDifferentialPrivacy(x.v, n))

\* the samples the shared random source hands to one request, in the order
\* of the draws: a, b, a, b, ...
Draw(a, b, i) == (IF i % 2 = 1 THEN a ELSE b) * 1000

\* the keys of a dict filled in the order of xs (first insertion order)
RECURSIVE KeysInOrder(_)
KeysInOrder(xs) ==
    IF Len(xs) = 0 THEN <<>>
    ELSE LET front == KeysInOrder(SubSeq(xs, 1, Len(xs) - 1))
             last == xs[Len(xs)]
         IN IF \E i \in 1..Len(front) : front[i] = last THEN front
            ELSE Append(front, last)

\* the values of f over the rows whose key is k, in row order
RECURSIVE Pick(_, _, _, _)
Pick(rows, keyField, k, f) ==
    IF Len(rows) = 0 THEN <<>>
    ELSE (IF rows[1][keyField] = k THEN <<rows[1][f]>> ELSE <<>>)
            \o Pick(Tail(rows), keyField, k, f)

\* get_customer_analytics, lines 334-358
CustomerStats(rows, a, b) ==
    LET regions == KeysInOrder([i \in 1..Len(rows) |-> rows[i].region])
        counts(r) == Len(Pick(rows, "region", r, "income"))
        totals(r) == SumSeq(Pick(rows, "region", r, "income"))
    IN [total_customers |-> Round2(PrivateNum(Num(Len(rows) * 1000), Draw(a, b, 1))),
        average_income |->
            Round2(PrivateNum(Mean([i \in 1..Len(rows) |-> rows[i].income]),
                              Draw(a, b, 2))),
        average_purchase_frequency |->
            Round2(PrivateNum(Mean([i \in 1..Len(rows) |-> rows[i].purchase_frequency]),
                              Draw(a, b, 3))),
        regional_breakdown |->
            [j \in 1..Len(regions) |->
                [region |-> regions[j],
                 customer_count |->
                     PrivateNum(Num(counts(regions[j]) * 1000), Draw(a, b, 2 + 2 * j)),
                 avg_income |->
                     PrivateNum(Num((totals(regions[j]) * 1000) \div counts(regions[j])),
                                Draw(a, b, 3 + 2 * j))]]]

\* (avg_order_value * purchase_frequency) / 1000 of one row, avg_order_value in cents
RowSales(c) == (c.avg_order_value * c.purchase_frequency) \div 100

AgeGroups == <<"18-30", "31-40", "41-50", "50+">>
AgeGroupOf(age) ==
    IF age <= 30 THEN "18-30" ELSE IF age <= 40 THEN "31-40"
    ELSE IF age <= 50 THEN "41-50" ELSE "50+"

\* max(d, key=d.get): the first key with the largest value
ArgMax(items) ==
    items[CHOOSE i \in 1..Len(items) :
              /\ \A j \in 1..Len(items) : items[j].v.v <= items[i].v.v
              /\ \A j \in 1..(i - 1) : items[j].v.v < items[i].v.v].k

\* get_trend_analytics, lines 379-410
TrendStats(rows, a, b) ==
    LET cats == KeysInOrder([i \in 1..Len(rows) |-> rows[i].product_category])
        sales(c) == SumSeq([i \in 1..Len(rows) |->
                        IF rows[i].product_category = c THEN RowSales(rows[i]) ELSE 0])
        ages(g) == Cardinality({i \in 1..Len(rows) : AgeGroupOf(rows[i].age) = g})
    IN [category_performance |->
            [j \in 1..Len(cats) |->
                [k |-> cats[j], v |-> PrivateNum(Num(sales(cats[j])), Draw(a, b, j))]],
        age_distribution |->
            [g \in 1..Len(AgeGroups) |->
                [k |-> AgeGroups[g],
                 v |-> PrivateNum(Num(ages(AgeGroups[g]) * 1000),
                                  Draw(a, b, Len(cats) + g))]]]

(***************************** the service: requests ***********************)
Request(endpoint, cred, username, password) ==
    [endpoint |-> endpoint, at |-> now, cred |-> cred,
     username |-> username, password |-> password, encoding |-> ""]

\* a response: the status, the keys of its JSON body and their values
Response(status, keys) ==
    [status |-> status, keys |-> keys, access_token |-> NoToken, audit_entries |-> <<>>,
     total_entries |-> 0, privacy_budget_remaining |-> 0, privacy_budget_used |-> 0,
     stats |-> <<>>]

LoginNames == {"admin", "analyst", "mallory"}
Passwords == {"admin123", "analyst123", "wrong_password"}

\* the noise samples handed to the requests: the two extremes
AppNoise == {-MaxNoise, MaxNoise}

\* tokens nobody was issued: signed with another key, without sub, for a
\* user that users_db does not hold
CraftedTokens ==
    {[sub |-> "admin", hasSub |-> TRUE, exp |-> MaxTime, key |-> "other"],
     [sub |-> "", hasSub |-> FALSE, exp |-> MaxTime, key |-> "SECRET_KEY"],
     [sub |-> "mallory", hasSub |-> TRUE, exp |-> MaxTime, key |-> "SECRET_KEY"]}

\* what a client can send as Authorization
Issued == {Bearer(t) : t \in tokens}
Creds == {NoCred} \cup Issued \cup {Bearer(t) : t \in CraftedTokens}

NotFetched == [raised |-> FALSE, rows |-> <<>>]

InitApp ==
    /\ users_db = InitialUsers
    /\ audit_log = <<>>
    /\ privacy_budget = PRIVACY_BUDGET
    /\ tokens = {}
    /\ now = 0
    /\ db \in DbStates
    /\ customers = NotFetched
    /\ req = Request("", NoCred, "", "")
    /\ resp = Response(0, {})
    /\ MaskIdle
    /\ NoiseIdle
    /\ SeedIdle
    /\ DashIdle

AppFrame == UNCHANGED <<maskVars, noiseVars, seedVars, dashVars>>

\* time passes
Tick ==
    /\ now + TickMinutes <= MaxTime
    /\ now' = now + TickMinutes
    /\ UNCHANGED <<users_db, audit_log, privacy_budget, tokens, db, customers, req, resp>>
    /\ AppFrame

\* the budget figure the status endpoints report: the module constant
BudgetRemainingAfterSpend(budget, log) ==
    budget - SumSeq([i \in 1..Len(log) |-> log[i].privacy_budget_used])
BudgetRemaining(budget, log) == budget

\* GET /health
HealthCheck ==
    /\ req' = Request("/health", NoCred, "", "")
    /\ resp' = [Response(200, {"status", "timestamp", "privacy_budget_remaining",
                               "differential_privacy_epsilon"})
                   EXCEPT !.privacy_budget_remaining =
                              BudgetRemaining(privacy_budget, audit_log)]
    /\ UNCHANGED <<users_db, audit_log, privacy_budget, tokens, now, db, customers>>
    /\ AppFrame

\* where a client puts username and password: the query string, or a form
\* body as the repository's tests do
Encodings == {"query", "form"}

\* POST /token, for the usernames, passwords and encodings of a client and
\* a log that holds fewer than limit entries. The handler's parameters
\* username: str and password: str are query parameters: a request that
\* does not carry them in the query string is answered 422 before the
\* handler runs.
Login(names, passwords, encodings, limit) ==
    \E u \in names, p \in passwords, enc \in encodings :
        LET user == AuthenticateUser(users_db, u, p)
            token == CreateAccessToken(user.username, now, ACCESS_TOKEN_EXPIRE_MINUTES)
        IN /\ (enc = "query" /\ user.found) => Len(audit_log) < limit
           /\ req' = [Request("/token", NoCred, u, p) EXCEPT !.encoding = enc]
           /\ IF enc # "query"
              THEN /\ resp' = Response(422, {"detail"})
                   /\ UNCHANGED <<audit_log, tokens>>
              ELSE IF ~user.found
              THEN /\ resp' = Response(401, {"detail"})
                   /\ UNCHANGED <<audit_log, tokens>>
              ELSE /\ audit_log' = LogAuditEntry(audit_log, now, user.username,
                                                 "LOGIN", "SYSTEM", 0)
                   /\ tokens' = tokens \cup {token}
                   /\ resp' = [Response(200, {"access_token", "token_type"})
                                  EXCEPT !.access_token = token]
           /\ UNCHANGED <<users_db, privacy_budget, now, db, customers>>
           /\ AppFrame

LoginForAccessToken == Login(LoginNames, Passwords, Encodings, MaxLog)

\* GET /api/analytics/customers: the route declares no dependency, so the
\* Authorization header is not looked at
CustomerAnalytics(creds, samples, limit) ==
    \E c \in creds, a \in samples, b \in samples :
        LET got == GetCustomerData(db)
            stats == CustomerStats(got.rows, a, b)
            unserializable == stats.total_customers.nan \/ stats.average_income.nan
                                \/ stats.average_purchase_frequency.nan
        IN /\ Len(audit_log) < limit
           /\ req' = Request("/api/analytics/customers", c, "", "")
           /\ customers' = got
           /\ IF got.raised
              THEN resp' = Response(500, {}) /\ UNCHANGED audit_log
              ELSE /\ audit_log' = LogAuditEntry(audit_log, now, "demo_user",
                                                 "ANALYTICS_ACCESS", "CUSTOMER_DATA", 10)
                   /\ resp' = IF unserializable THEN Response(500, {})
                              ELSE [Response(200, {"total_customers", "average_income",
                                                   "average_purchase_frequency",
                                                   "regional_breakdown",
                                                   "privacy_budget_used",
                                                   "privacy_guarantees"})
                                      EXCEPT !.stats = stats, !.privacy_budget_used = 10]
           /\ UNCHANGED <<users_db, privacy_budget, tokens, now, db>>
           /\ AppFrame

GetCustomerAnalytics == CustomerAnalytics({NoCred} \cup Issued, AppNoise, MaxLog)

\* GET /api/analytics/trends: no dependency either; max() of an empty
\* category dict raises after the audit entry is written
TrendAnalytics(creds, samples, limit) ==
    \E c \in creds, a \in samples, b \in samples :
        LET got == GetCustomerData(db)
            stats == TrendStats(got.rows, a, b)
        IN /\ Len(audit_log) < limit
           /\ req' = Request("/api/analytics/trends", c, "", "")
           /\ customers' = got
           /\ IF got.raised
              THEN resp' = Response(500, {}) /\ UNCHANGED audit_log
              ELSE /\ audit_log' = LogAuditEntry(audit_log, now, "demo_user",
                                                 "TREND_ANALYSIS", "CUSTOMER_DATA", 15)
                   /\ resp' = IF Len(stats.category_performance) = 0
                              THEN Response(500, {})
                              ELSE [Response(200, {"category_performance",
                                                   "age_distribution", "trend_insights",
                                                   "privacy_budget_used",
                                                   "privacy_guarantees"})
                                      EXCEPT !.stats =
                                                 [category_performance |->
                                                      stats.category_performance,
                                                  age_distribution |->
                                                      stats.age_distribution,
                                                  top_category |->
                                                      ArgMax(stats.category_performance),
                                                  dominant_age_group |->
                                                      ArgMax(stats.age_distribution)],
                                             !.privacy_budget_used = 15]
           /\ UNCHANGED <<users_db, privacy_budget, tokens, now, db>>
           /\ AppFrame

GetTrendAnalytics == TrendAnalytics({NoCred} \cup Issued, AppNoise, MaxLog)

\* HTTPBearer answers a request without credentials itself
StatusWithout(c) == IF c.present THEN {401} ELSE MissingBearerStatuses

\* the outcome of Depends(get_current_user) for an Authorization header
Authenticate(c, missing) ==
    IF ~c.present THEN [status |-> missing, user |-> NoUser]
    ELSE LET user == GetCurrentUser(users_db, c.token, now)
         IN IF user.found THEN [status |-> 200, user |-> user]
            ELSE [status |-> 401, user |-> NoUser]

\* GET /api/privacy/audit
AuditResponseAnyRole(auth) ==
    [Response(200, {"audit_entries", "total_entries", "privacy_budget_remaining"})
        EXCEPT !.audit_entries = SliceLast(audit_log, 50),
               !.total_entries = Len(audit_log),
               !.privacy_budget_remaining = BudgetRemaining(privacy_budget, audit_log)]
AuditResponse(auth) ==
    IF auth.user.role # "admin"
    THEN Response(403, {"detail"})
    ELSE [Response(200, {"audit_entries", "total_entries", "privacy_budget_remaining"})
            EXCEPT !.audit_entries = SliceLast(audit_log, 50),
                   !.total_entries = Len(audit_log),
                   !.privacy_budget_remaining = BudgetRemaining(privacy_budget, audit_log)]

AuditLog(creds) ==
    \E c \in creds : \E missing \in StatusWithout(c) :
        LET auth == Authenticate(c, missing)
        IN /\ req' = Request("/api/privacy/audit", c, "", "")
           /\ resp' = IF auth.status # 200 THEN Response(auth.status, {"detail"})
                      ELSE AuditResponse(auth)
           /\ UNCHANGED <<users_db, audit_log, privacy_budget, tokens, now, db, customers>>
           /\ AppFrame

GetAuditLog == AuditLog(Creds)

\* GET /api/privacy/compliance
Compliance(creds) ==
    \E c \in creds : \E missing \in StatusWithout(c) :
        LET auth == Authenticate(c, missing)
        IN /\ req' = Request("/api/privacy/compliance", c, "", "")
           /\ resp' = IF auth.status # 200 THEN Response(auth.status, {"detail"})
                      ELSE [Response(200, {"gdpr_compliance", "ccpa_compliance",
                                           "data_encryption", "pii_masking",
                                           "audit_logging", "privacy_budget_remaining",
                                           "last_compliance_check"})
                              EXCEPT !.privacy_budget_remaining =
                                         BudgetRemaining(privacy_budget, audit_log)]
           /\ UNCHANGED <<users_db, audit_log, privacy_budget, tokens, now, db, customers>>
           /\ AppFrame

GetComplianceStatus == Compliance({NoCred} \cup Issued)

NextApp ==
    \/ Tick
    \/ HealthCheck
    \/ LoginForAccessToken
    \/ GetCustomerAnalytics
    \/ GetTrendAnalytics
    \/ GetAuditLog
    \/ GetComplianceStatus

SpecApp == InitApp /\ [][NextApp]_vars

(***************************** the service: a long run of spending *********)
\* one administrator and anonymous analytics clients, long enough for the
\* logged spend to pass PRIVACY_BUDGET
InitSpend == InitApp

SpendLogin == Login({"admin"}, {"admin123"}, {"query"}, 1)
SpendCustomers == CustomerAnalytics({NoCred}, {MaxNoise}, MaxSpend)
SpendTrends == TrendAnalytics({NoCred}, {MaxNoise}, MaxSpend)
SpendAudit == AuditLog(Issued)
SpendCompliance == Compliance(Issued)

NextSpend ==
    \/ SpendLogin
    \/ SpendCustomers
    \/ SpendTrends
    \/ HealthCheck
    \/ SpendAudit
    \/ SpendCompliance

SpecSpend == InitSpend /\ [][NextSpend]_vars

(***************************** concurrent callers **************************)
\* Several callers run mask_pii and apply_differential_privacy at once, one
\* statement at a time, on one heap; two callers may pass the same dict.
Callers == {"c1", "c2"}

ConcRecords ==
    {MakeDict([name |-> n, email |-> e, phone |-> p, age |-> IntV(35),
               region |-> StrV(<<"a", "@", "1">>)]) :
        n \in {StrV(<<"a", "b">>), StrV(<<"a", "b", "a">>)},
        e \in {StrV(<<"a", "@", "a">>), Absent},
        p \in {StrV(<<"1", "2", "1", "2", "1">>), NoneV}}

ConcLog == LogAuditEntry(<<>>, 0, "admin", "LOGIN", "SYSTEM", 0)

MaskCall(ref, record) ==
    [op |-> "mask_pii", data |-> ref, input |-> record, value |-> 0, sample |-> 0,
     pc |-> "copy", masked_data |-> 0, noise |-> 0, result |-> 0]
NoiseCall(v, n) ==
    [op |-> "apply_differential_privacy", data |-> 0, input |-> <<>>, value |-> v,
     sample |-> n, pc |-> "draw", masked_data |-> 0, noise |-> 0, result |-> 0]

InitConc ==
    /\ \E r1 \in ConcRecords, r2 \in ConcRecords :
          /\ r2.name = StrV(<<"a", "b">>) /\ "email" \notin DOMAIN r2
          /\ heap = <<r1, r2>>
    /\ callers \in [Callers ->
                      {MaskCall(ref, heap[ref]) : ref \in 1..2}
                        \cup {NoiseCall(v, n) : v \in {-MaxValue, 0, MaxValue},
                                                n \in AppNoise}]
    /\ data = 0 /\ before = <<>> /\ ret = 0 /\ pc = "idle"
    /\ NoiseIdle
    /\ users_db = InitialUsers
    /\ audit_log = ConcLog
    /\ privacy_budget = PRIVACY_BUDGET
    /\ tokens = {} /\ now = 0 /\ db = <<>> /\ customers = <<>>
    /\ req = <<>> /\ resp = <<>>
    /\ SeedIdle /\ DashIdle

ConcFrame ==
    /\ UNCHANGED <<data, before, ret, pc>>
    /\ UNCHANGED noiseVars
    /\ UNCHANGED <<appVars, seedVars, dashVars>>

At(c, op, label) == callers[c].op = op /\ callers[c].pc = label
Local(c) == [heap |-> heap, ref |-> callers[c].masked_data, raised |-> FALSE]

\* one "if key in masked_data:" block of caller c
Block(c, st, next) ==
    /\ heap' = st.heap
    /\ callers' = [callers EXCEPT ![c].pc = IF st.raised THEN "raised" ELSE next]
    /\ ConcFrame

\* masked_data = data.copy()
CopyData(c) ==
    /\ At(c, "mask_pii", "copy")
    /\ LET st == DictCopy(heap, callers[c].data)
       IN /\ heap' = st.heap
          /\ callers' = [callers EXCEPT ![c].masked_data = st.ref, ![c].pc = "name"]
    /\ ConcFrame

MaskNameOf(c) == At(c, "mask_pii", "name") /\ Block(c, NameStep(Local(c)), "email")
MaskEmailOf(c) == At(c, "mask_pii", "email") /\ Block(c, EmailStep(Local(c)), "phone")
MaskPhoneOf(c) == At(c, "mask_pii", "phone") /\ Block(c, PhoneStep(Local(c)), "return")

\* return masked_data
ReturnMasked(c) ==
    /\ At(c, "mask_pii", "return")
    /\ callers' = [callers EXCEPT ![c].pc = "done"]
    /\ UNCHANGED heap
    /\ ConcFrame

\* noise = np.random.laplace(0, 0.1/epsilon), with the default epsilon
DrawNoise(c) ==
    /\ At(c, "apply_differential_privacy", "draw")
    /\ callers' = [callers EXCEPT ![c].noise = callers[c].sample, ![c].pc = "add"]
    /\ UNCHANGED heap
    /\ ConcFrame

\* result = value + noise
AddNoise(c) ==
    /\ At(c, "apply_differential_privacy", "add")
    /\ callers' = [callers EXCEPT ![c].result = callers[c].value + callers[c].noise,
                                  ![c].pc = "clamp"]
    /\ UNCHANGED heap
    /\ ConcFrame

\* return max(0, result) if value > 0 else result
ReturnClamped(c) ==
    /\ At(c, "apply_differential_privacy", "clamp")
    /\ callers' = [callers EXCEPT ![c].result = Clamp(callers[c].value, callers[c].result),
                                  ![c].pc = "done"]
    /\ UNCHANGED heap
    /\ ConcFrame

NextConc ==
    \E c \in Callers :
        \/ CopyData(c)
        \/ MaskNameOf(c)
        \/ MaskEmailOf(c)
        \/ MaskPhoneOf(c)
        \/ ReturnMasked(c)
        \/ DrawNoise(c)
        \/ AddNoise(c)
        \/ ReturnClamped(c)

SpecConc == InitConc /\ [][NextConc]_vars

(***************************** seeding the database *************************)
\* Server processes that share DATABASE_URL. One process runs its handlers
\* one after the other (both startup handlers, then /test-db requests);
\* the database statements of different processes interleave.
Procs == {"p1", "p2", "p3"}

SeedCustomerIds == <<"CUST001", "CUST002", "CUST003", "CUST004", "CUST005">>
SeedBudgetUsers == <<"admin", "analyst", "viewer">>

\* the calls of initialize_sample_data one process makes, in order
Handlers == <<"startup_event", "startup_event">> \o [i \in 1..MaxTestDb |-> "test_database"]

Elems(xs) == {xs[i] : i \in 1..Len(xs)}

\* the unique indexes on customers.customer_id and privacy_budgets.user
UniqueViolation(st) ==
    \/ Elems(SeedCustomerIds) \cap Elems(st.customers) # {}
    \/ Elems(SeedBudgetUsers) \cap Elems(st.privacy_budgets) # {}

Outcome(handler, seen, inserted, error) ==
    [handler |-> handler, seen |-> seen, inserted |-> inserted, error |-> error]

InitSeed ==
    /\ store = [customers |-> <<>>, privacy_budgets |-> <<>>]
    /\ procs = [p \in Procs |-> [call |-> 1, pc |-> "start", seen |-> 0, outcomes |-> <<>>]]
    /\ DashIdle
    /\ MaskIdle
    /\ NoiseIdle
    /\ users_db = <<>> /\ audit_log = <<>> /\ privacy_budget = 0 /\ tokens = {}
    /\ now = 0 /\ db = <<>> /\ customers = <<>> /\ req = <<>> /\ resp = <<>>

SeedFrame == UNCHANGED <<maskVars, noiseVars, appVars, dashVars>>

Finish(p, outcome) ==
    procs' = [procs EXCEPT ![p].call = @ + 1, ![p].pc = "start", ![p].seen = 0,
                           ![p].outcomes = Append(@, outcome)]

\* db = SessionLocal(); if db.query(Customer).count() > 0: db.close(); return
CountCustomers(p) ==
    /\ procs[p].pc = "start"
    /\ procs[p].call <= Len(Handlers)
    /\ LET n == Len(store.customers)
       IN IF n > 0
          THEN Finish(p, Outcome(Handlers[procs[p].call], n, 0, "none"))
          ELSE procs' = [procs EXCEPT ![p].pc = "counted", ![p].seen = n]
    /\ UNCHANGED store
    /\ SeedFrame

\* db.add(...) for the five customers and the three budgets: the rows are
\* pending in the session, the tables are untouched
AddRows(p) ==
    /\ procs[p].pc = "counted"
    /\ procs' = [procs EXCEPT ![p].pc = "added"]
    /\ UNCHANGED store
    /\ SeedFrame

\* db.commit(): the pending rows are written, or the flush fails on a
\* unique index and nothing is written
CommitSeed(p) ==
    /\ procs[p].pc = "added"
    /\ IF UniqueViolation(store)
       THEN /\ UNCHANGED store
            /\ Finish(p, Outcome(Handlers[procs[p].call], procs[p].seen, 0,
                                 "IntegrityError"))
       ELSE /\ store' = [customers |-> store.customers \o SeedCustomerIds,
                         privacy_budgets |-> store.privacy_budgets \o SeedBudgetUsers]
            /\ Finish(p, Outcome(Handlers[procs[p].call], procs[p].seen,
                                 Len(SeedCustomerIds), "none"))
    /\ SeedFrame

NextSeed ==
    \E p \in Procs :
        \/ CountCustomers(p)
        \/ AddRows(p)
        \/ CommitSeed(p)

SpecSeed == InitSeed /\ [][NextSeed]_vars

(***************************** the dashboard script ************************)
\* the awaits of one loadData run, in order
Awaits == <<"fetch_customers", "json_customers", "fetch_trends", "json_trends">>

\* One call of loadData: a run waits at Awaits[at] (at = 0 once it is over),
\* fetches counts the fetch() calls it has made.
Run(at, fetches, outcome) ==
    [kind |-> "run", at |-> at, fetches |-> fetches, outcome |-> outcome]
Skipped == [kind |-> "skipped", at |-> 0, fetches |-> 0, outcome |-> "returned"]

InProgress(ls) == {i \in 1..Len(ls) : ls[i].at > 0}

InitDash ==
    /\ isLoading = FALSE
    /\ loads = <<>>
    /\ SeedIdle
    /\ MaskIdle
    /\ NoiseIdle
    /\ users_db = <<>> /\ audit_log = <<>> /\ privacy_budget = 0 /\ tokens = {}
    /\ now = 0 /\ db = <<>> /\ customers = <<>> /\ req = <<>> /\ resp = <<>>

DashFrame == UNCHANGED <<maskVars, noiseVars, appVars, seedVars>>

\* a guard that lets every call through
LoadDataNeverReturnsEarly(loading) == FALSE
\* if (isLoading) return;
LoadDataReturnsEarly(loading) == loading

\* loadData() up to its first await: the guard, isLoading = true and the
\* first fetch() run without interruption
LoadData ==
    IF LoadDataReturnsEarly(isLoading)
    THEN /\ loads' = Append(loads, Skipped)
         /\ UNCHANGED isLoading
    ELSE /\ isLoading' = TRUE
         /\ loads' = Append(loads, Run(1, 1, "pending"))

\* the call at the end of the script
PageLoad ==
    /\ loads = <<>>
    /\ LoadData
    /\ DashFrame

\* onclick="loadData()" of the Refresh Data button
RefreshClick ==
    /\ loads # <<>>
    /\ Len(loads) < 1 + MaxClicks
    /\ LoadData
    /\ DashFrame

\* an awaited promise resolves and the run goes on to its next await
ResolveAwait(i) ==
    /\ i \in InProgress(loads)
    /\ loads[i].at < Len(Awaits)
    /\ loads' = [loads EXCEPT ![i].at = @ + 1,
                              ![i].fetches = IF Awaits[loads[i].at + 1] = "fetch_trends"
                                             THEN @ + 1 ELSE @]
    /\ UNCHANGED isLoading
    /\ DashFrame

\* the last await resolves: the page is updated, or the update throws and
\* the catch block logs it; finally { isLoading = false; }
Render(i, ok) ==
    /\ i \in InProgress(loads)
    /\ loads[i].at = Len(Awaits)
    /\ loads' = [loads EXCEPT ![i].at = 0,
                              ![i].outcome = IF ok THEN "rendered" ELSE "caught"]
    /\ isLoading' = FALSE
    /\ DashFrame

\* an awaited promise rejects: catch logs it; finally { isLoading = false; }
RejectAwait(i) ==
    /\ i \in InProgress(loads)
    /\ loads' = [loads EXCEPT ![i].at = 0, ![i].outcome = "caught"]
    /\ isLoading' = FALSE
    /\ DashFrame

\* every awaited promise settles
Settle ==
    \E i \in 1..(1 + MaxClicks) :
        \/ ResolveAwait(i)
        \/ \E ok \in BOOLEAN : Render(i, ok)
        \/ RejectAwait(i)

NextDash ==
    \/ PageLoad
    \/ RefreshClick
    \/ Settle

SpecDash == InitDash /\ [][NextDash]_vars
\* the browser settles every fetch and every body read
SpecDashLive == SpecDash /\ WF_vars(Settle)

(***************************** claims: mask_pii ****************************)
Returned == pc = "returned"
HasStr(d, k) == k \in DOMAIN d /\ d[k].type = "str"

\* C1: mask_pii never mutates its input: after it returns, the caller's record
\* has the same keys and values as before the call, and the returned record
\* is a distinct object.
C1_InputNotMutated == Returned => (heap[data] = before /\ ret # data)

C1_Witness ==
    /\ Returned
    /\ \E k \in PII \cap DOMAIN before : heap[ret][k] # before[k]
    /\ heap[data] = before

\* C2: every key other than name, email and phone has the same value in the
\* returned record, and the returned record has exactly the keys of the input.
C2_NonPIIUnchanged ==
    Returned =>
        /\ DOMAIN heap[ret] = DOMAIN before
        /\ \A k \in (DOMAIN before) \ PII : heap[ret][k] = before[k]

C2_Witness ==
    /\ Returned
    /\ {"age", "region", "name"} \subseteq DOMAIN before
    /\ "phone" \notin DOMAIN before
    /\ heap[ret]["name"] # before["name"]
    /\ heap[ret]["region"] = before["region"]

\* C3: a string name becomes "***" followed by its last 2 characters when it
\* has more than 2 characters, and exactly "***" when it has 0, 1 or 2.
C3_NameMasked ==
    (Returned /\ HasStr(before, "name")) =>
        LET s == before["name"].str
            n == Len(s)
        IN heap[ret]["name"] =
              StrV(IF n > 2 THEN <<"*", "*", "*", s[n - 1], s[n]>>
                            ELSE <<"*", "*", "*">>)

C3_Witness ==
    /\ Returned
    /\ HasStr(before, "name")
    /\ before["name"].str = <<"b", "a", "b">>
    /\ heap[ret]["name"].str = <<"*", "*", "*", "a", "b">>

C3_WitnessShort ==
    /\ Returned
    /\ HasStr(before, "name")
    /\ before["name"].str = <<"a", "b">>
    /\ heap[ret]["name"].str = <<"*", "*", "*">>

\* C4: a string email with exactly one "@" becomes the first 2 characters of
\* its local part, then "***@", then its domain; an email with no "@" or with
\* more than one is left exactly unchanged.
AtPositions(s) == {i \in 1..Len(s) : s[i] = "@"}

C4_EmailMasked ==
    (Returned /\ HasStr(before, "email")) =>
        LET s == before["email"].str
            ats == AtPositions(s)
        IN IF Cardinality(ats) = 1
           THEN LET i == CHOOSE i \in ats : TRUE
                    local == SubSeq(s, 1, i - 1)
                    domain == SubSeq(s, i + 1, Len(s))
                    first2 == IF Len(local) <= 2 THEN local ELSE <<local[1], local[2]>>
                IN heap[ret]["email"] = StrV(first2 \o <<"*", "*", "*", "@">> \o domain)
           ELSE heap[ret]["email"] = before["email"]

C4_Witness ==
    /\ Returned
    /\ HasStr(before, "email")
    /\ before["email"].str = <<"a", "a", "a", "@">>
    /\ heap[ret]["email"].str = <<"a", "a", "*", "*", "*", "@">>

C4_WitnessTwoAts ==
    /\ Returned
    /\ HasStr(before, "email")
    /\ before["email"].str = <<"a", "@", "a", "@">>
    /\ heap[ret]["email"].str = <<"a", "@", "a", "@">>

\* C5: a string phone of at least 4 characters becomes "***-***-" followed by
\* its last 4 characters.
C5_PhoneMasked ==
    (Returned /\ HasStr(before, "phone") /\ Len(before["phone"].str) >= 4) =>
        LET s == before["phone"].str
            n == Len(s)
        IN heap[ret]["phone"] =
              StrV(<<"*", "*", "*", "-", "*", "*", "*", "-",
                     s[n - 3], s[n - 2], s[n - 1], s[n]>>)

C5_Witness ==
    /\ Returned
    /\ HasStr(before, "phone")
    /\ before["phone"].str = <<"1", "2", "2", "1", "2">>
    /\ heap[ret]["phone"].str =
          <<"*", "*", "*", "-", "*", "*", "*", "-", "2", "2", "1", "2">>

\* C6: a phone string of fewer than 4 characters is masked whole: none of its
\* characters appears in the masked phone value.
C6_ShortPhoneFullyMasked ==
    (Returned /\ HasStr(before, "phone") /\ Len(before["phone"].str) < 4) =>
        LET s == before["phone"].str
            out == heap[ret]["phone"].str
        IN \A i \in 1..Len(s) : \A j \in 1..Len(out) : out[j] # s[i]

\* C7: mask_pii never raises: every call returns a record, and a name, email
\* or phone that is not a string is passed through as it is.
C7_NeverRaises ==
    (pc \in {"returned", "raised"}) =>
        /\ Returned
        /\ \A k \in PII \cap DOMAIN before :
              before[k].type # "str" => heap[ret][k] = before[k]

\* C8: masking is one-way: for every original string value of name, email or
\* phone, a record that differs only in that field, by a different string,
\* is masked to the same output.
FieldChars(k) ==
    IF k = "name" THEN NameChars ELSE IF k = "email" THEN EmailChars ELSE PhoneChars
FieldMaxLen(k) ==
    IF k = "name" THEN MaxNameLen ELSE IF k = "email" THEN MaxEmailLen ELSE MaxPhoneLen
OtherOriginals(k, s) == Strings(FieldChars(k), FieldMaxLen(k) + 1) \ {s}
MaskedOf(r) == LET st == MaskPii(<<r>>, 1) IN st.heap[st.ref]

C8_OneWay ==
    Returned =>
        \A k \in PII :
            HasStr(before, k) =>
                \E s2 \in OtherOriginals(k, before[k].str) :
                    MaskedOf([before EXCEPT ![k] = StrV(s2)]) = heap[ret]

(***************************** claims: apply_differential_privacy **********)
DPReturned == dpc = "returned"

\* C9: for value > 0, epsilon > 0 and any noise sample the result is >= 0.
C9_PositiveValueNonNegative == (DPReturned /\ value > 0 /\ epsilon > 0) => result >= 0

C9_Witness ==
    /\ DPReturned /\ value > 0 /\ epsilon > 0
    /\ value + noise < 0
    /\ result = 0

\* C10: for value <= 0 and epsilon > 0 the result is exactly value + noise,
\* unclamped, so it can be negative, also for value = 0.
C10_NonPositiveValueUnclamped ==
    (DPReturned /\ value <= 0 /\ epsilon > 0) => result = value + noise

C10_Witness ==
    /\ DPReturned /\ value = 0 /\ epsilon > 0
    /\ noise < 0
    /\ result < 0

\* C11: every call draws exactly one noise sample with scale b = k / epsilon
\* for the one constant k = 0.1, where epsilon is the caller's argument or
\* else the process-wide default; epsilon = 0.1 gives scale 1.0.
\* (epsilon is in tenths, so b * epsilon = 0.1 reads num * epsilon = den.)
C11_ScaleIsTenthOverEpsilon ==
    DPReturned =>
        /\ draws = 1
        /\ epsilon = (IF epsArg.given THEN epsArg.v ELSE 1)
        /\ scale.num * epsilon = scale.den
        /\ (epsilon = 1 => scale.num = scale.den)

C11_Witness ==
    /\ DPReturned
    /\ ~epsArg.given
    /\ epsilon = 1
    /\ scale = [num |-> 1, den |-> 1]
    /\ draws = 1

C11_WitnessHalf ==
    /\ DPReturned
    /\ epsArg.given
    /\ epsilon = 2
    /\ scale = [num |-> 1, den |-> 2]

\* C13: a call with epsilon <= 0 is rejected with an explicit
\* invalid-parameter error and never returns a numeric result.
C13_NonPositiveEpsilonRejected ==
    (dpc # "ready" /\ dpc # "idle" /\ epsilon <= 0) => dpc = "ValueError"

(***************************** claims: the service *************************)
IsPrefix(xs, ys) == Len(xs) <= Len(ys) /\ SubSeq(ys, 1, Len(xs)) = xs
IsAnalytics(r) == r.endpoint \in {"/api/analytics/customers", "/api/analytics/trends"}

\* a step in which a request was handled that calls log_audit_entry: every
\* step but Tick is one request, and its endpoint is in req afterwards
LoggingRequest ==
    /\ now' = now
    /\ IsAnalytics(req') \/ (req'.endpoint = "/token" /\ resp'.status = 200)

\* C15: the audit log is append-only and users_db is read-only: no step
\* changes users_db, every step leaves the old log as a prefix of the new
\* one and adds at most one entry, and every request that calls
\* log_audit_entry (a successful login, an analytics request) adds exactly
\* one entry.
C15_AuditLogAppendOnly ==
    [][/\ users_db' = users_db
       /\ IsPrefix(audit_log, audit_log')
       /\ Len(audit_log') <= Len(audit_log) + 1
       /\ LoggingRequest => Len(audit_log') = Len(audit_log) + 1]_vars

\* a log that grew twice, after a login and an analytics request
C15_Witness ==
    /\ Len(audit_log) = 2
    /\ audit_log[1].action = "LOGIN"
    /\ audit_log[2].action = "ANALYTICS_ACCESS"
    /\ users_db = InitialUsers

\* the spend the audit log has recorded so far
SumUsed(log) == SumSeq([i \in 1..Len(log) |-> log[i].privacy_budget_used])

\* C16: the privacy budget is logged, never enforced: the budget stays at
\* PRIVACY_BUDGET, every response that reports privacy_budget_remaining
\* (/health, /api/privacy/audit, /api/privacy/compliance) reports
\* PRIVACY_BUDGET whatever the log holds, and an analytics request over a
\* non-empty dataset is answered 200 however much spend the log records.
C16_BudgetNeverEnforced ==
    /\ privacy_budget = PRIVACY_BUDGET
    /\ "privacy_budget_remaining" \in resp.keys
         => resp.privacy_budget_remaining = PRIVACY_BUDGET
    /\ (IsAnalytics(req) /\ Len(customers.rows) > 0) => resp.status = 200

\* an analytics request answered 200 although the log already recorded more
\* than the whole budget before it
C16_Witness ==
    /\ IsAnalytics(req)
    /\ resp.status = 200
    /\ SumUsed(audit_log) - resp.privacy_budget_used > PRIVACY_BUDGET

\* the audit endpoint reporting the full budget after it was overspent
C16_WitnessReport ==
    /\ req.endpoint = "/api/privacy/audit"
    /\ resp.status = 200
    /\ SumUsed(resp.audit_entries) > PRIVACY_BUDGET
    /\ resp.privacy_budget_remaining = PRIVACY_BUDGET

\* a request that carries a token POST /token issued and that has not
\* expired when the request is made
HoldsValidToken(r) ==
    /\ r.cred.present
    /\ r.cred.token \in tokens
    /\ r.at <= r.cred.token.exp

\* C17: /api/analytics/customers is protected: a request without a bearer
\* token is answered 401 with no analytics data, and only a request with a
\* valid token is answered 200.
C17_CustomersProtected ==
    req.endpoint = "/api/analytics/customers" =>
        /\ ~req.cred.present => (resp.status = 401 /\ resp.stats = <<>>)
        /\ resp.status = 200 => HoldsValidToken(req)

RoleOf(r) == users_db[r.cred.token.sub].role
AuditKeys == {"audit_entries", "total_entries", "privacy_budget_remaining"}

\* C18: GET /api/privacy/audit discloses audit entries only to an
\* authenticated admin: a response that carries audit_entries went to a
\* holder of a valid token whose role is admin; an authenticated user with
\* another role is answered 403 without entries; an admin is answered 200
\* with audit_entries, total_entries and privacy_budget_remaining.
C18_AuditOnlyForAdmin ==
    req.endpoint = "/api/privacy/audit" =>
        /\ ("audit_entries" \in resp.keys \/ resp.audit_entries # <<>>)
             => (HoldsValidToken(req) /\ RoleOf(req) = "admin")
        /\ (HoldsValidToken(req) /\ RoleOf(req) # "admin")
             => (resp.status = 403 /\ resp.keys = {"detail"} /\ resp.audit_entries = <<>>)
        /\ (HoldsValidToken(req) /\ RoleOf(req) = "admin")
             => /\ resp.status = 200
                /\ resp.keys = AuditKeys
                /\ resp.total_entries >= Len(resp.audit_entries)
                /\ IsPrefix(resp.audit_entries, audit_log)

\* an analyst refused while the log holds entries
C18_Witness ==
    /\ req.endpoint = "/api/privacy/audit"
    /\ HoldsValidToken(req)
    /\ RoleOf(req) = "analyst"
    /\ resp.status = 403
    /\ Len(audit_log) > 0

\* an admin reading a log of two entries
C18_WitnessAdmin ==
    /\ req.endpoint = "/api/privacy/audit"
    /\ HoldsValidToken(req)
    /\ RoleOf(req) = "admin"
    /\ resp.status = 200
    /\ Len(resp.audit_entries) = 2

\* the username is in users_db and the password is the one its hash was
\* made from
GoodLogin(r) ==
    /\ r.username \in DOMAIN users_db
    /\ users_db[r.username].hashed_password = HashPassword(r.password)

\* C19: POST /token issues a token exactly when the username is in users_db
\* and the password verifies against that user's hash; a success answers
\* 200 with a token for that user and appends exactly one LOGIN entry with
\* privacy_budget_used 0; a failure answers 401, issues no token and leaves
\* audit_log unchanged.
C19_TokenIffAuthenticated ==
    [][LoginForAccessToken =>
         IF GoodLogin(req')
         THEN /\ resp'.status = 200
              /\ resp'.access_token \in tokens'
              /\ resp'.access_token.sub = req'.username
              /\ Len(audit_log') = Len(audit_log) + 1
              /\ IsPrefix(audit_log, audit_log')
              /\ audit_log'[Len(audit_log')].action = "LOGIN"
              /\ audit_log'[Len(audit_log')].user = req'.username
              /\ audit_log'[Len(audit_log')].privacy_budget_used = 0
         ELSE /\ resp'.status = 401
              /\ resp'.access_token = NoToken
              /\ tokens' = tokens
              /\ audit_log' = audit_log]_vars

SampleIds == <<"CUST001", "CUST002", "CUST003", "CUST004", "CUST005">>
Ids(rows) == [i \in 1..Len(rows) |-> rows[i].customer_id]
IsAnalyticsAnswered == IsAnalytics(req) /\ resp.status # 0

\* C20: get_customer_data never raises to its caller: when the session or
\* the query fails it returns the five sample records CUST001..CUST005,
\* otherwise one record per stored customer, in table order.
C20_FallbackOnFailure ==
    IsAnalyticsAnswered =>
        /\ ~customers.raised
        /\ (~db.session \/ ~db.query)
             => (Len(customers.rows) = 5 /\ Ids(customers.rows) = SampleIds)
        /\ (db.session /\ db.query)
             => (Len(customers.rows) = Len(db.rows) /\ Ids(customers.rows) = Ids(db.rows))

\* the fallback taken because the query failed on an open session
C20_Witness ==
    /\ IsAnalyticsAnswered
    /\ db.session /\ ~db.query
    /\ Ids(customers.rows) = SampleIds

\* the rows of a table of two customers
C20_WitnessTable ==
    /\ IsAnalyticsAnswered
    /\ db.session /\ db.query
    /\ Len(db.rows) = 2
    /\ Len(customers.rows) = 2

(***************************** claims: concurrent callers ******************)
\* what mask_pii does with record r when nothing else runs
Alone(r) == MaskPii(<<r>>, 1)

\* C14: mask_pii and apply_differential_privacy keep no process-wide
\* state: no step of a call changes audit_log, users_db or the privacy
\* budget, and under every interleaving of the callers' statements each
\* call ends as it would alone on its own input: mask_pii raises exactly
\* when it would alone and otherwise returns a fresh dict equal to the
\* masked record, apply_differential_privacy returns the clamped sum of its
\* value and its own noise sample.
C14_CallsIndependent ==
    /\ audit_log = ConcLog
    /\ users_db = InitialUsers
    /\ privacy_budget = PRIVACY_BUDGET
    /\ \A c \in DOMAIN callers :
          LET k == callers[c]
          IN /\ (k.op = "mask_pii" /\ k.pc = "done")
                  => /\ ~Alone(k.input).raised
                     /\ heap[k.masked_data] = MaskedOf(k.input)
                     /\ heap[k.data] = k.input
             /\ (k.op = "mask_pii" /\ k.pc = "raised") => Alone(k.input).raised
             /\ (k.op = "apply_differential_privacy" /\ k.pc = "done")
                  => k.result = ApplyDifferentialPrivacy(k.value, k.sample)

\* two callers that masked the same dict, with a name of two characters
C14_Witness ==
    /\ DOMAIN callers = Callers
    /\ \A c \in Callers : callers[c].op = "mask_pii" /\ callers[c].pc = "done"
    /\ callers["c1"].data = callers["c2"].data
    /\ callers["c1"].masked_data # callers["c2"].masked_data
    /\ callers["c1"].input["name"] = StrV(<<"a", "b">>)

\* a mask_pii call and a noise call that both returned
C14_WitnessMixed ==
    /\ DOMAIN callers = Callers
    /\ callers["c1"].op = "mask_pii" /\ callers["c1"].pc = "done"
    /\ callers["c2"].op = "apply_differential_privacy" /\ callers["c2"].pc = "done"
    /\ callers["c2"].value > 0
    /\ callers["c2"].result = 0

(***************************** claims: analytics values ********************)
Answered(endpoint) == req.endpoint = endpoint /\ resp.status # 0
PositiveIncomes(rows) == \A i \in 1..Len(rows) : rows[i].income > 0

\* C21: for every non-empty dataset with positive incomes the response of
\* /api/analytics/customers has total_customers > 0 and average_income > 0,
\* whatever noise is drawn.
C21_TotalsStrictlyPositive ==
    (/\ Answered("/api/analytics/customers")
     /\ Len(customers.rows) > 0
     /\ PositiveIncomes(customers.rows))
        => /\ resp.status = 200
           /\ resp.stats.total_customers.v > 0
           /\ resp.stats.average_income.v > 0

\* C22: no count-like aggregate of the analytics endpoints is negative:
\* every customer_count of regional_breakdown and every entry of
\* age_distribution, also of an age group without customers, is >= 0.
C22_CountsNonNegative ==
    /\ (Answered("/api/analytics/customers") /\ resp.status = 200)
         => \A j \in 1..Len(resp.stats.regional_breakdown) :
                resp.stats.regional_breakdown[j].customer_count.v >= 0
    /\ (Answered("/api/analytics/trends") /\ resp.status = 200)
         => \A g \in 1..Len(resp.stats.age_distribution) :
                resp.stats.age_distribution[g].v.v >= 0

\* C24: the analytics endpoints end with a normal response for every
\* dataset get_customer_data can return, the empty one included, and each
\* still appends its audit entry.
C24_AnalyticsAlwaysAnswer ==
    (IsAnalytics(req) /\ resp.status # 0)
        => /\ resp.status = 200
           /\ Len(audit_log) > 0

(***************************** claims: masking twice ***********************)
AllPIIStrings(r) == \A k \in PII : HasStr(r, k)

\* C23: mask_pii is idempotent: for every record with string name, email
\* and phone, of any length, masking the masked record returns a record
\* equal to it.
C23_MaskIdempotent ==
    (pc = "returned again" /\ AllPIIStrings(before)) => heap[ret] = heap[data]

(***************************** claims: tokens ******************************)
NeedsUser(r) == r.endpoint \in {"/api/privacy/audit", "/api/privacy/compliance"}

\* signed with SECRET_KEY, not expired at time t, with a sub that names a
\* user of users_db
ValidAt(tok, t) ==
    /\ tok.key = "SECRET_KEY"
    /\ t <= tok.exp
    /\ tok.hasSub
    /\ tok.sub \in DOMAIN users_db

\* C27: get_current_user accepts a bearer token only if it is signed with
\* SECRET_KEY, not expired and its sub names a user of users_db; every
\* other token (bad signature, no sub, unknown user, expired) is answered
\* 401; a token of /token expires ACCESS_TOKEN_EXPIRE_MINUTES = 30 minutes
\* after the login that issued it and is refused after that.
C27_TokenAcceptedOnlyIfValid ==
    /\ \A t \in tokens :
          \E i \in 1..Len(audit_log) :
              /\ audit_log[i].action = "LOGIN"
              /\ audit_log[i].user = t.sub
              /\ t.exp = audit_log[i].timestamp + 30
    /\ (NeedsUser(req) /\ req.cred.present)
         => IF ValidAt(req.cred.token, req.at)
            THEN resp.status \in {200, 403}
            ELSE resp.status = 401

\* a token of /token refused because more than 30 minutes passed
C27_Witness ==
    /\ NeedsUser(req)
    /\ req.cred.present
    /\ req.cred.token \in tokens
    /\ req.at > req.cred.token.exp
    /\ req.cred.token.exp = 30
    /\ resp.status = 401

\* a token of /token accepted at the time of its issue
C27_WitnessAccepted ==
    /\ NeedsUser(req)
    /\ req.cred.present
    /\ req.cred.token \in tokens
    /\ req.at + 30 = req.cred.token.exp
    /\ resp.status = 200

\* a token with a good signature for a user that does not exist
C27_WitnessUnknownUser ==
    /\ NeedsUser(req)
    /\ req.cred.present
    /\ req.cred.token.key = "SECRET_KEY"
    /\ req.cred.token.sub = "mallory"
    /\ resp.status = 401

(***************************** claims: seeding *****************************)
NoDuplicates(xs) == \A i \in 1..Len(xs) : \A j \in 1..Len(xs) : xs[i] = xs[j] => i = j
AllOutcomes == UNION {Elems(procs[p].outcomes) : p \in DOMAIN procs}

\* C25: seeding is idempotent under every ordering and interleaving of the
\* initialize_sample_data calls: customers holds each customer_id at most
\* once and privacy_budgets each user at most once, a call that finds a
\* customer inserts nothing, and no call ends in an error because another
\* call seeded between its count and its commit.
C25_SeedingIdempotent ==
    /\ NoDuplicates(store.customers)
    /\ NoDuplicates(store.privacy_budgets)
    /\ \A o \in AllOutcomes :
          /\ o.seen > 0 => o.inserted = 0
          /\ o.error = "none"

(***************************** claims: dashboard ***************************)
TotalFetches(ls) == SumSeq([i \in 1..Len(ls) |-> ls[i].fetches])

OneRunAtATime ==
    /\ Cardinality(InProgress(loads)) <= 1
    /\ isLoading <=> InProgress(loads) # {}

\* a call made while isLoading is true starts no run and fetches nothing
CallWhileLoadingReturns ==
    (isLoading /\ Len(loads') = Len(loads) + 1)
        => /\ loads'[Len(loads')] = Skipped
           /\ TotalFetches(loads') = TotalFetches(loads)
           /\ InProgress(loads') = InProgress(loads)
           /\ isLoading'

\* the step that ends a run, by success or by failure, resets isLoading
RunEndResets ==
    (Len(loads') = Len(loads) /\ InProgress(loads') # InProgress(loads))
        => ~isLoading'

\* C26: at most one loadData run is in progress at any time: a call made
\* while isLoading is true returns without fetching, and isLoading is reset
\* to false when a run ends, by success or by failure, so that a later
\* Refresh click loads again.
C26_SingleLoadInProgress ==
    /\ []OneRunAtATime
    /\ [][CallWhileLoadingReturns /\ RunEndResets]_vars
    /\ isLoading ~> ~isLoading

\* a click during a run was skipped, the run failed, and a later click
\* loaded and rendered
C26_Witness ==
    \E i, j, k \in 1..Len(loads) :
        /\ i < j /\ j < k
        /\ loads[i].kind = "run" /\ loads[i].outcome = "caught"
        /\ loads[j] = Skipped
        /\ loads[k].kind = "run" /\ loads[k].outcome = "rendered" /\ loads[k].fetches = 2
        /\ ~isLoading

====
